---- MODULE Spec2Model ----
(***************************************************************************)
(* The perceptron of notebooks/ann-introduction.ipynb: perceptron,         *)
(* adjust_weights and train_perceptron, with the notebook's OR and XOR     *)
(* runs.                                                                   *)
(*                                                                         *)
(* Numbers.  The notebook computes with Python floats.  Here every real is *)
(* a decimal fixed-point integer: the real r is the integer r * Scale, so  *)
(* 0.5 is 5000 and 0.05 is 500.  A product of two such numbers is kept in  *)
(* units of 1/Scale^2 (the dot product) or brought back to units of        *)
(* 1/Scale by an exact division (the weight delta); the inputs below are   *)
(* chosen so that every division is exact, i.e. the arithmetic is the      *)
(* exact decimal arithmetic of the values, without float rounding.         *)
(***************************************************************************)
EXTENDS Integers, Sequences, FiniteSets, TLC

Scale == 10 ^ 4

\* the largest num_batches a caller passes
MaxBatches == 6

\* the largest num_batches of a second run from the same weights
MaxRerunBatches == 1

\* ------------------------------------------------------------------------
\* The notebook's data
\* ------------------------------------------------------------------------

\* sample_data: the four inputs of the two-input truth table
sample_data == << <<0, 0>>, <<0, Scale>>, <<Scale, 0>>, <<Scale, Scale>> >>

\* expected_results: logical OR
expected_results == <<0, 1, 1, 1>>

\* xor_features is the same table as sample_data; xor_labels: exclusive or.
\* The notebook holds xor_labels as a 4x1 array, which makes every weight of
\* that run a one-element array; the numbers are those of the flat vectors.
xor_features == sample_data

xor_labels == <<0, 1, 1, 0>>

\* the initial weights of the XOR run, [0.02, 0.34]
xor_initial_weights == <<200, 3400>>

\* weights = np.random.random(2)/1000: each weight a small float below .001
SmallWeights == {1, 5, 9}

SmallWeightVectors == {<<a, b>> : a \in SmallWeights, b \in SmallWeights}

\* bias_weight = np.random.random() / 1000 at module level
ModuleBiasWeights == {2, 7}

\* a dataset whose second example is longer than the weight vector, and one
\* whose third example is shorter
ragged_long == << <<0, 0>>, <<0, Scale, Scale>>, <<Scale, 0>>, <<Scale, Scale>> >>

ragged_short == << <<0, 0>>, <<0, Scale>>, <<Scale>>, <<Scale, Scale>> >>

\* the (features, labels) pairs a caller trains on
Datasets ==
  { <<sample_data, expected_results>>,
    <<xor_features, xor_labels>>,
    <<ragged_long, expected_results>>,
    <<ragged_short, expected_results>> }

InitialWeightVectors == SmallWeightVectors \cup {xor_initial_weights}

\* learning rates: 1 (the default), 0.05, 0.0747 and 0.0748
DefaultLearningRate == Scale

LearningRates == {DefaultLearningRate, 500, 747, 748}

\* activation_threshold = 0.5
activation_threshold_05 == 5000

ActivationThresholds == {activation_threshold_05}

\* example_input = [1, .2, .1, .05, .2] and example_weights = [.2, .12, .4, .6, .90]
example_input == <<Scale, 2000, 1000, 500, 2000>>

example_weights == <<2000, 1200, 4000, 6000, 9000>>

\* the inputs, weights and thresholds of the direct calls: the notebook's
\* example, rows of the truth table, and vectors of other lengths
EvalInputs ==
  { example_input, <<0, Scale>>, <<Scale, Scale>>, <<Scale>>, <<0, Scale, Scale>> }

EvalWeightVectors ==
  { example_weights, xor_initial_weights, <<1000, 2000>>, <<-3000, 6000>> }

EvalThresholds == {activation_threshold_05, 6740, 2000}

\* a perceptron output or a label
Outputs == {0, 1}

\* the learning rates of the direct calls of adjust_weights: 1 and 0.05
AdjustRates == {DefaultLearningRate, 500}

\* ------------------------------------------------------------------------
\* perceptron
\* ------------------------------------------------------------------------

\* bias_weight = .2, the local of perceptron
bias_weight == 2000

\* np.dot of two 1-d arrays of the same length, in units of 1/Scale^2
RECURSIVE DotUpTo(_, _, _)
DotUpTo(x, w, n) ==
  IF n = 0 THEN 0 ELSE DotUpTo(x, w, n - 1) + x[n] * w[n]

Dot(x, w) == DotUpTo(x, w, Len(x))

\* activation_level without the bias term
activation_level_nobias(input, w) == Dot(input, w)

\* activation_level = np.dot(input_vector, weights) + (bias_weight * 1)
activation_level(input, w) == Dot(input, w) + bias_weight * 1 * Scale

\* perceptron with the comparison turned round: activation_level <= threshold
perceptron_reversed(input, w, threshold) ==
  IF Len(input) # Len(w)
  THEN [kind |-> "ValueError"]
  ELSE [kind |-> "ok",
        value |-> IF activation_level(input, w) <= threshold * Scale
                  THEN 1 ELSE 0]

\* perceptron with a strict comparison: activation_level > threshold
perceptron_strict(input, w, threshold) ==
  IF Len(input) # Len(w)
  THEN [kind |-> "ValueError"]
  ELSE [kind |-> "ok",
        value |-> IF activation_level(input, w) > threshold * Scale
                  THEN 1 ELSE 0]

\* perceptron summing over the common prefix of the two vectors, as a loop
\* over zip(input, weights) would, instead of np.dot
perceptron_truncating(input, w, threshold) ==
  LET n == IF Len(input) < Len(w) THEN Len(input) ELSE Len(w) IN
    [kind |-> "ok",
     value |-> IF DotUpTo(input, w, n) + bias_weight * 1 * Scale >= threshold * Scale
               THEN 1 ELSE 0]

\* perceptron(input, weights, threshold): np.dot raises ValueError when the
\* two 1-d arrays differ in length; otherwise the step function
perceptron(input, w, threshold) ==
  IF Len(input) # Len(w)
  THEN [kind |-> "ValueError"]
  ELSE [kind |-> "ok",
        value |-> IF activation_level(input, w) >= threshold * Scale
                  THEN 1 ELSE 0]

\* ------------------------------------------------------------------------
\* adjust_weights
\* ------------------------------------------------------------------------

\* new_weight without the learning rate
new_weight_norate(perceptron_output, expected_output, x, wi, learning_rate) ==
  wi + (expected_output - perceptron_output) * x

\* new_weight with the error's sign reversed: observed minus expected
new_weight_reversed(perceptron_output, expected_output, x, wi, learning_rate) ==
  wi + ((perceptron_output - expected_output) * x * learning_rate) \div Scale

\* new_weight with the expected output alone in the place of the error
new_weight_noobserved(perceptron_output, expected_output, x, wi, learning_rate) ==
  wi + (expected_output * x * learning_rate) \div Scale

\* new_weight = input_weights[i] + (expected_output - perceptron_output) * x * learning_rate
new_weight(perceptron_output, expected_output, x, wi, learning_rate) ==
  wi + ((expected_output - perceptron_output) * x * learning_rate) \div Scale

\* adjust_weights writing each new weight into input_weights as well, where
\* the vectors have the same length
input_weights_inplace(perceptron_output, expected_output, given_input, input_weights, learning_rate) ==
  IF Len(given_input) # Len(input_weights)
  THEN input_weights
  ELSE [i \in 1..Len(input_weights) |->
          new_weight(perceptron_output, expected_output,
                     given_input[i], input_weights[i], learning_rate)]

\* the caller's input_weights after adjust_weights: new_weights = [] is a list
\* of its own and input_weights is only read
input_weights_after(perceptron_output, expected_output, given_input, input_weights, learning_rate) ==
  input_weights

\* adjust_weights appending to a copy of input_weights instead of to []
adjust_weights_grow(perceptron_output, expected_output, given_input, input_weights, learning_rate) ==
  IF Len(given_input) > Len(input_weights)
  THEN [kind |-> "IndexError"]
  ELSE [kind |-> "ok",
        weights |-> input_weights \o
                    [i \in 1..Len(given_input) |->
                       new_weight(perceptron_output, expected_output,
                                  given_input[i], input_weights[i], learning_rate)]]

\* adjust_weights: one new weight per entry of given_input; input_weights[i]
\* raises IndexError when given_input is longer than input_weights
adjust_weights(perceptron_output, expected_output, given_input, input_weights, learning_rate) ==
  IF Len(given_input) > Len(input_weights)
  THEN [kind |-> "IndexError"]
  ELSE [kind |-> "ok",
        weights |-> [i \in 1..Len(given_input) |->
                       new_weight(perceptron_output, expected_output,
                                  given_input[i], input_weights[i], learning_rate)]]

\* ------------------------------------------------------------------------
\* State
\* ------------------------------------------------------------------------

VARIABLES
  pc,                   \* where the caller / train_perceptron stands
  module_bias_weight,   \* the module-level bias_weight of the notebook
  input_features,       \* parameters of train_perceptron
  input_labels,
  initial_weights,
  activation_threshold,
  num_batches,
  learning_rate,
  weights,              \* locals of train_perceptron
  batch_num,
  output,
  idx,
  stdout,               \* the lines printed so far
  call,                 \* the call the notebook cell makes, with its arguments
  result,               \* what the call gave its caller
  caller_weights,       \* the caller's weight vector that the call was given
  activation,           \* activation_level of the perceptron call of the cell
  cells                 \* the printed lines of the cells run before this one

vars == <<pc, module_bias_weight, input_features, input_labels, initial_weights,
          activation_threshold, num_batches, learning_rate, weights, batch_num,
          output, idx, stdout, call, result, caller_weights, activation, cells>>

\* what the notebook keeps outside the call under way
notebook == <<module_bias_weight, activation, cells>>

locals == <<weights, batch_num, output, idx>>

params == <<input_features, input_labels, initial_weights,
            activation_threshold, num_batches, learning_rate>>

Init ==
  /\ pc = "idle"
  /\ module_bias_weight \in ModuleBiasWeights
  /\ input_features = <<>>
  /\ input_labels = <<>>
  /\ initial_weights = <<>>
  /\ activation_threshold = 0
  /\ num_batches = 0
  /\ learning_rate = 0
  /\ weights = <<>>
  /\ batch_num = 0
  /\ output = <<>>
  /\ idx = 0
  /\ stdout = <<>>
  /\ call = [fn |-> "none"]
  /\ result = [kind |-> "none yet"]
  /\ caller_weights = <<>>
  /\ activation = [set |-> FALSE]
  /\ cells = <<>>

\* ------------------------------------------------------------------------
\* The cells that call perceptron and adjust_weights directly
\* ------------------------------------------------------------------------

\* output = perceptron(example_input, example_weights, 0.5), and the same call
\* on other inputs
CallPerceptron ==
  /\ pc = "idle"
  /\ \E input \in EvalInputs, w \in EvalWeightVectors, t \in EvalThresholds :
       /\ call' = [fn |-> "perceptron", input |-> input, weights |-> w, threshold |-> t]
       /\ result' = perceptron(input, w, t)
       /\ activation' = IF Len(input) = Len(w)
                        THEN [set |-> TRUE, level |-> activation_level(input, w)]
                        ELSE activation
       /\ caller_weights' = w
  /\ pc' = "returned"
  /\ UNCHANGED <<module_bias_weight, cells, params, locals, stdout>>

\* new_weights = adjust_weights(output, 0, example_input, example_weights):
\* learning_rate is left to its default
CallAdjustDefault ==
  /\ pc = "idle"
  /\ \E o \in Outputs, e \in Outputs, x \in EvalInputs, w \in EvalWeightVectors :
       /\ call' = [fn |-> "adjust_weights", perceptron_output |-> o, expected_output |-> e,
                   given_input |-> x, input_weights |-> w, rate_given |-> FALSE,
                   learning_rate |-> 0]
       /\ result' = adjust_weights(o, e, x, w, DefaultLearningRate)
       /\ caller_weights' = input_weights_after(o, e, x, w, DefaultLearningRate)
  /\ pc' = "returned"
  /\ UNCHANGED <<notebook, params, locals, stdout>>

\* adjust_weights called with a learning rate, as train_perceptron calls it
CallAdjust ==
  /\ pc = "idle"
  /\ \E o \in Outputs, e \in Outputs, x \in EvalInputs, w \in EvalWeightVectors,
        lr \in AdjustRates :
       /\ call' = [fn |-> "adjust_weights", perceptron_output |-> o, expected_output |-> e,
                   given_input |-> x, input_weights |-> w, rate_given |-> TRUE,
                   learning_rate |-> lr]
       /\ result' = adjust_weights(o, e, x, w, lr)
       /\ caller_weights' = input_weights_after(o, e, x, w, lr)
  /\ pc' = "returned"
  /\ UNCHANGED <<notebook, params, locals, stdout>>

\* the cell that puts the learning algorithm and the perceptron together:
\*   output = perceptron(example_input, example_weights, 0.5)
\*   new_weights = adjust_weights(output, 0, example_input, example_weights)
\*   output_again = perceptron(example_input, new_weights, 0.5)
\* and the same cell on other inputs and expected outputs
LearnCell ==
  /\ pc = "idle"
  /\ \E x \in EvalInputs, w \in EvalWeightVectors, t \in EvalThresholds, e \in Outputs :
       LET before == perceptron(x, w, t)
           adjusted == adjust_weights(before.value, e, x, w, DefaultLearningRate)
           after == perceptron(x, adjusted.weights, t)
       IN  /\ call' = [fn |-> "learn_cell", input |-> x, weights |-> w,
                       threshold |-> t, expected_output |-> e]
           /\ result' = IF before.kind # "ok" THEN before
                        ELSE IF adjusted.kind # "ok" THEN [kind |-> adjusted.kind]
                        ELSE IF after.kind # "ok" THEN after
                        ELSE [kind |-> "ok", output |-> before.value,
                              new_weights |-> adjusted.weights,
                              output_again |-> after.value]
           /\ caller_weights' =
                IF before.kind # "ok" THEN w
                ELSE input_weights_after(before.value, e, x, w, DefaultLearningRate)
  /\ pc' = "returned"
  /\ UNCHANGED <<notebook, params, locals, stdout>>

\* ------------------------------------------------------------------------
\* The cell that writes one batch out by hand
\* ------------------------------------------------------------------------

\* output.append(perceptron(datum, weights, activation_threshold)) for every
\* datum of sample_data
hand_output(w) ==
  [k \in 1..Len(sample_data) |->
     perceptron(sample_data[k], w, activation_threshold_05).value]

\* new_weights after k rounds of the loop
\* new_weights = adjust_weights(output[idx], expected_results[idx], datum, weights):
\* every round passes the global weights, so the last round's value stays
hand_new_weights(w, outs, k) ==
  adjust_weights(outs[k], expected_results[k], sample_data[k], w,
                 DefaultLearningRate).weights

\* the whole cell, from the small random weights of the notebook
HandBatch ==
  /\ pc = "idle"
  /\ \E w \in SmallWeightVectors :
       /\ call' = [fn |-> "hand_batch", weights |-> w]
       /\ result' = [kind |-> "ok",
                     weights |-> hand_new_weights(w, hand_output(w), Len(sample_data))]
       /\ caller_weights' = w
  /\ pc' = "returned"
  /\ UNCHANGED <<notebook, params, locals, stdout>>

\* ------------------------------------------------------------------------
\* train_perceptron
\* ------------------------------------------------------------------------

\* the second loop of a batch, as a function of its inputs: the weights after
\* weights = adjust_weights(output[idx], input_labels[idx], datum, weights,
\* learning_rate) for the examples 1..k
RECURSIVE batch_adjust(_, _, _, _, _, _)
batch_adjust(features, labels, outs, w, lr, k) ==
  IF k = 0 THEN w
  ELSE adjust_weights(outs[k], labels[k], features[k],
                      batch_adjust(features, labels, outs, w, lr, k - 1), lr).weights

\* one batch of train_perceptron as a function of its inputs: every example
\* is evaluated with the pre-batch weights w, then the adjustments are chained
train_batch(features, labels, w, threshold, lr) ==
  LET outs == [k \in 1..Len(features) |-> perceptron(features[k], w, threshold).value]
  IN  batch_adjust(features, labels, outs, w, lr, Len(features))

\* the caller calls train_perceptron(...); weights = initial_weights
TrainCall ==
  /\ pc = "idle"
  /\ \E d \in Datasets, w \in InitialWeightVectors, t \in ActivationThresholds,
        n \in 0..MaxBatches, lr \in LearningRates :
       /\ input_features' = d[1]
       /\ input_labels' = d[2]
       /\ initial_weights' = w
       /\ activation_threshold' = t
       /\ num_batches' = n
       /\ learning_rate' = lr
       /\ weights' = w
       /\ caller_weights' = w
  /\ batch_num' = 0
  /\ call' = [fn |-> "train_perceptron"]
  /\ pc' = "batch"
  /\ UNCHANGED <<notebook, output, idx, stdout, result>>

\* the next cell calls train_perceptron again on the same data with the same
\* weights vector of the caller, as the run with learning_rate=0.05 does
TrainAgain ==
  /\ pc = "done"
  /\ cells = <<>>
  /\ \E n \in 0..MaxRerunBatches, lr \in LearningRates :
       /\ num_batches' = n
       /\ learning_rate' = lr
  /\ initial_weights' = caller_weights
  /\ weights' = caller_weights
  /\ batch_num' = 0
  /\ output' = <<>>
  /\ idx' = 0
  /\ cells' = <<stdout>>
  /\ stdout' = <<>>
  /\ result' = [kind |-> "none yet"]
  /\ pc' = "batch"
  /\ UNCHANGED <<module_bias_weight, activation, input_features, input_labels,
                 activation_threshold, call, caller_weights>>

\* for batch_num in range(0, num_batches): print pre-batch weights; output = []
BatchStart ==
  /\ pc = "batch"
  /\ batch_num < num_batches
  /\ stdout' = Append(stdout, [line |-> "pre", weights |-> weights])
  /\ output' = <<>>
  /\ idx' = 1
  /\ pc' = "evaluate"
  /\ UNCHANGED <<notebook, caller_weights, params, weights, batch_num, call, result>>

\* the weights printed by the pre-batch line of the batch under way
PreBatchWeights == stdout[Len(stdout)].weights

\* TrainEvaluate with the online rule: the weights are adjusted for an example
\* as soon as it is evaluated
TrainEvaluate_online ==
  /\ pc = "evaluate"
  /\ idx <= Len(input_features)
  /\ LET r == perceptron(input_features[idx], weights, activation_threshold) IN
       IF r.kind = "ok"
       THEN /\ output' = Append(output, r.value)
            /\ weights' = adjust_weights(r.value, input_labels[idx], input_features[idx],
                                         weights, learning_rate).weights
            /\ idx' = idx + 1
            /\ UNCHANGED <<pc, result>>
       ELSE /\ pc' = "error"
            /\ result' = r
            /\ UNCHANGED <<output, idx, weights>>
  /\ UNCHANGED <<notebook, caller_weights, params, batch_num, stdout, call>>

\* output.append(perceptron(datum, weights, activation_threshold))
TrainEvaluate ==
  /\ pc = "evaluate"
  /\ idx <= Len(input_features)
  /\ LET r == perceptron(input_features[idx], weights, activation_threshold) IN
       IF r.kind = "ok"
       THEN /\ output' = Append(output, r.value)
            /\ idx' = idx + 1
            /\ UNCHANGED <<pc, result>>
       ELSE /\ pc' = "error"
            /\ result' = r
            /\ UNCHANGED <<output, idx>>
  /\ UNCHANGED <<notebook, caller_weights, params, weights, batch_num, stdout, call>>

\* the first loop is over: go on to the loop of adjustments
EvaluateDone ==
  /\ pc = "evaluate"
  /\ idx > Len(input_features)
  /\ pc' = "adjust"
  /\ idx' = 1
  /\ UNCHANGED <<notebook, caller_weights, params, weights, batch_num, output, stdout, call, result>>

\* TrainAdjust without the chaining: every adjustment starts from the
\* pre-batch weights, as in the cell that writes one batch out by hand
TrainAdjust_unchained ==
  /\ pc = "adjust"
  /\ idx <= Len(input_features)
  /\ LET r == adjust_weights(output[idx], input_labels[idx], input_features[idx],
                             PreBatchWeights, learning_rate) IN
       IF r.kind = "ok"
       THEN /\ weights' = r.weights
            /\ idx' = idx + 1
            /\ UNCHANGED <<pc, result>>
       ELSE /\ pc' = "error"
            /\ result' = r
            /\ UNCHANGED <<weights, idx>>
  /\ UNCHANGED <<notebook, caller_weights, params, batch_num, output, stdout, call>>

\* weights = initial_weights makes weights the caller's own vector until the
\* first adjustment of the run assigns weights the array adjust_weights built
WeightsIsCallers == batch_num = 0 /\ idx = 1

\* weights = adjust_weights(output[idx], input_labels[idx], datum, weights, learning_rate)
TrainAdjust ==
  /\ pc = "adjust"
  /\ idx <= Len(input_features)
  /\ LET r == adjust_weights(output[idx], input_labels[idx], input_features[idx],
                             weights, learning_rate) IN
       IF r.kind = "ok"
       THEN /\ weights' = r.weights
            /\ idx' = idx + 1
            /\ UNCHANGED <<pc, result>>
       ELSE /\ pc' = "error"
            /\ result' = r
            /\ UNCHANGED <<weights, idx>>
  /\ caller_weights' =
       IF WeightsIsCallers /\ Len(input_features[idx]) <= Len(weights)
       THEN input_weights_after(output[idx], input_labels[idx], input_features[idx],
                                weights, learning_rate)
       ELSE caller_weights
  /\ UNCHANGED <<notebook, params, batch_num, output, stdout, call>>

\* BatchEnd with the labels printed in the place of the output
BatchEnd_echo ==
  /\ pc = "adjust"
  /\ idx > Len(input_features)
  /\ stdout' = Append(stdout, [line |-> "post", weights |-> weights,
                               output |-> input_labels, expected |-> input_labels])
  /\ batch_num' = batch_num + 1
  /\ pc' = "batch"
  /\ UNCHANGED <<notebook, caller_weights, params, weights, output, idx, call, result>>

\* print post-batch weights, output and labels; next batch_num
BatchEnd ==
  /\ pc = "adjust"
  /\ idx > Len(input_features)
  /\ stdout' = Append(stdout, [line |-> "post", weights |-> weights,
                               output |-> output, expected |-> input_labels])
  /\ batch_num' = batch_num + 1
  /\ pc' = "batch"
  /\ UNCHANGED <<notebook, caller_weights, params, weights, output, idx, call, result>>

\* TrainReturn with an early exit: the loop also ends once a batch's outputs
\* equalled the labels
TrainReturn_early ==
  /\ pc = "batch"
  /\ \/ batch_num >= num_batches
     \/ /\ Len(stdout) > 0
        /\ stdout[Len(stdout)].output = input_labels
  /\ result' = [kind |-> "None"]
  /\ pc' = "done"
  /\ UNCHANGED <<notebook, caller_weights, params, weights, batch_num, output, idx, stdout, call>>

\* TrainReturn handing the weights back: return weights
TrainReturn_weights ==
  /\ pc = "batch"
  /\ batch_num >= num_batches
  /\ result' = [kind |-> "weights", weights |-> weights]
  /\ pc' = "done"
  /\ UNCHANGED <<notebook, caller_weights, params, weights, batch_num, output, idx, stdout, call>>

\* the for loop is exhausted: the function ends without a return statement
TrainReturn ==
  /\ pc = "batch"
  /\ batch_num >= num_batches
  /\ result' = [kind |-> "None"]
  /\ pc' = "done"
  /\ UNCHANGED <<notebook, caller_weights, params, weights, batch_num, output, idx, stdout, call>>

Next ==
  \/ CallPerceptron
  \/ CallAdjustDefault
  \/ CallAdjust
  \/ LearnCell
  \/ HandBatch
  \/ TrainCall
  \/ TrainAgain
  \/ BatchStart
  \/ TrainEvaluate
  \/ EvaluateDone
  \/ TrainAdjust
  \/ BatchEnd
  \/ TrainReturn

Spec == Init /\ [][Next]_vars

\* the interpreter runs the called function on: no step waits for ever
FairSpec == Spec /\ WF_vars(Next)

\* ------------------------------------------------------------------------
\* What the claims speak of
\* ------------------------------------------------------------------------

InBatch == pc \in {"evaluate", "adjust"}

\* the output of example k under the weights w
OutputOf(k, w) == perceptron(input_features[k], w, activation_threshold).value

\* the weights after the adjustments for examples 1..k with learning rate
\* lr, chained from w
RECURSIVE ChainWith(_, _, _, _)
ChainWith(w, outs, k, lr) ==
  IF k = 0 THEN w
  ELSE adjust_weights(outs[k], input_labels[k], input_features[k],
                      ChainWith(w, outs, k - 1, lr), lr).weights

ChainedAdjust(w, outs, k) == ChainWith(w, outs, k, learning_rate)

\* the indices of the post-batch lines printed so far
PostLines == {j \in 1..Len(stdout) : stdout[j].line = "post"}

\* C1: in every batch the outputs of all examples are computed from the
\* weights held at the start of the batch: while the batch evaluates, the
\* weights are still the pre-batch weights (no adjust before the last
\* evaluate), and every output recorded, in the list and in the post-batch
\* line, is the output of its example under the pre-batch weights.
C1_OutputsFromPreBatchWeights ==
  /\ InBatch =>
       /\ stdout[Len(stdout)].line = "pre"
       /\ pc = "evaluate" => weights = PreBatchWeights
       /\ \A k \in 1..Len(output) : output[k] = OutputOf(k, PreBatchWeights)
  /\ \A j \in PostLines :
       /\ j > 1 /\ stdout[j - 1].line = "pre"
       /\ Len(stdout[j].output) = Len(input_features)
       /\ \A k \in 1..Len(input_features) :
            stdout[j].output[k] = OutputOf(k, stdout[j - 1].weights)

\* a batch whose adjustments for earlier examples have changed the weights
\* and would change the output of a later example
C1_Witness ==
  /\ pc = "adjust"
  /\ idx > Len(input_features)
  /\ \E k \in 2..Len(input_features) :
       output[k] # OutputOf(k, ChainedAdjust(PreBatchWeights, output, k - 1))

\* C2: within a batch the adjustments are applied in input order and chained:
\* after the adjustments for examples 1..k the weights are the k-fold chain
\* of adjust_weights from the pre-batch weights; the post-batch weights are
\* the result of the last adjust, and they are the pre-batch weights of the
\* next batch (the initial weights for the first batch).
C2_ChainedAdjustments ==
  /\ pc = "adjust" =>
       weights = ChainedAdjust(PreBatchWeights, output, idx - 1)
  /\ \A j \in PostLines :
       stdout[j].weights =
         ChainedAdjust(stdout[j - 1].weights, stdout[j].output, Len(input_features))
  /\ \A j \in 1..Len(stdout) :
       stdout[j].line = "pre" =>
         stdout[j].weights = IF j = 1 THEN initial_weights ELSE stdout[j - 1].weights

\* a second batch has started from the weights that two or more adjustments
\* of the first batch changed one after the other
C2_Witness ==
  /\ Len(stdout) >= 3
  /\ stdout[3].line = "pre"
  /\ \E k \in 1..(Len(input_features) - 1) :
       LET a == ChainedAdjust(stdout[1].weights, stdout[2].output, k - 1)
           b == ChainedAdjust(stdout[1].weights, stdout[2].output, k)
           c == ChainedAdjust(stdout[1].weights, stdout[2].output, k + 1)
       IN a # b /\ b # c /\ stdout[3].weights # stdout[1].weights

\* the states of the spec's state machine of train
Phase ==
  CASE pc = "idle" -> "Idle"
    [] pc \in {"batch", "evaluate", "adjust"} -> "Training"
    [] pc = "done" -> "Done"
    [] OTHER -> "Other"

\* every example has the dimension of the weight vector
ConsistentDimension ==
  \A k \in 1..Len(input_features) : Len(input_features[k]) = Len(initial_weights)

BatchesExecuted == Cardinality(PostLines)

\* a batch whose outputs equal the labels, or that left the weights as they were
QuietLines ==
  {j \in PostLines :
     stdout[j].output = input_labels \/ stdout[j].weights = stdout[j - 1].weights}

\* C3: for every num_batches >= 0 and every dataset of consistent dimension
\* train goes Idle -> Training -> Done: it leaves Training only for Done and
\* only after exactly num_batches batches (none when num_batches = 0), also
\* when an earlier batch's outputs equalled the labels or left the weights
\* unchanged; it never leaves Done; and it terminates.
C3_RunsAllBatchesThenDone ==
  /\ [][ /\ (pc = "idle" /\ call'.fn = "train_perceptron") => Phase' = "Training"
         /\ (Phase = "Training" /\ ConsistentDimension) => Phase' \in {"Training", "Done"}
         /\ (Phase = "Training" /\ Phase' = "Done") =>
              /\ BatchesExecuted = num_batches
              /\ BatchesExecuted' = num_batches
         /\ (Phase = "Done" /\ cells' = cells) => Phase' = "Done" ]_vars
  /\ [](Phase = "Training" => BatchesExecuted <= num_batches)
  /\ []((Phase = "Training" /\ ConsistentDimension) ~> (Phase = "Done"))

\* a run that is Done after going on for two batches beyond one whose outputs
\* equalled the labels and that left the weights unchanged
C3_Witness ==
  /\ pc = "done"
  /\ num_batches >= 3
  /\ BatchesExecuted = num_batches
  /\ \E j \in QuietLines :
       /\ j + 4 <= Len(stdout)
       /\ stdout[j].output = input_labels
       /\ stdout[j].weights = stdout[j - 1].weights

\* ------------------------------------------------------------------------
\* perceptron and adjust_weights called directly
\* ------------------------------------------------------------------------

EvaluateCalled == pc = "returned" /\ call.fn = "perceptron"

AdjustCalled == pc = "returned" /\ call.fn = "adjust_weights"

\* evaluate returns 1 exactly when inner product + b >= threshold, else 0, in
\* the direct calls and in every output recorded by the batch under way
EvaluateContract(b) ==
  /\ (EvaluateCalled /\ Len(call.input) = Len(call.weights)) =>
       /\ result.kind = "ok"
       /\ result.value \in {0, 1}
       /\ result.value = 1 <=>
            Dot(call.input, call.weights) + b * Scale >= call.threshold * Scale
  /\ InBatch =>
       \A k \in 1..Len(output) :
         /\ output[k] \in {0, 1}
         /\ output[k] = 1 <=>
              Dot(input_features[k], PreBatchWeights) + b * Scale
                >= activation_threshold * Scale

\* C4 as claimed: the bias added is the value the caller holds for the run,
\* the notebook's module-level bias_weight.
C4_CallerBias == EvaluateContract(module_bias_weight)

\* C4, amended: evaluate returns 1 exactly when inner product + 0.2 >=
\* threshold and 0 otherwise, 0.2 being the constant bias_weight local to
\* perceptron (the caller supplies no bias); a sum equal to the threshold
\* yields 1 and the result is always 0 or 1.
C4_ConstantBias == EvaluateContract(2000)

\* a direct call whose sum equals the threshold and that returned 1
C4_Witness ==
  /\ EvaluateCalled
  /\ Len(call.input) = Len(call.weights)
  /\ Dot(call.input, call.weights) + 2000 * Scale = call.threshold * Scale
  /\ result.value = 1

\* the learning rate of the direct call of adjust_weights: 1 when left out
RateOfCall == IF call.rate_given THEN call.learning_rate ELSE Scale

\* C5: adjust returns a vector whose entry i is
\* weights[i] + (expected - observed) * example[i] * learningRate for every
\* feature index i; when observed = expected it returns the weights; and
\* learningRate is 1 when the caller leaves it out.
C5_DeltaRule ==
  (AdjustCalled /\ Len(call.given_input) = Len(call.input_weights)) =>
     /\ result.kind = "ok"
     /\ Len(result.weights) = Len(call.input_weights)
     /\ \A i \in 1..Len(call.input_weights) :
          result.weights[i] * Scale =
            call.input_weights[i] * Scale
              + (call.expected_output - call.perceptron_output)
                  * call.given_input[i] * RateOfCall
     /\ call.perceptron_output = call.expected_output =>
          result.weights = call.input_weights

\* adjust_weights called with learning rate 0.05 on the example input, seen
\* as 0 where 1 was expected: it raised every weight by 0.05 times the feature
C5_Witness ==
  /\ AdjustCalled
  /\ call.given_input = example_input
  /\ call.input_weights = example_weights
  /\ call.perceptron_output = 0 /\ call.expected_output = 1
  /\ call.rate_given /\ call.learning_rate = 500
  /\ result.weights = <<2500, 1300, 4050, 6025, 9100>>

\* ------------------------------------------------------------------------
\* The OR and XOR runs
\* ------------------------------------------------------------------------

TrainCalled == call.fn = "train_perceptron"

\* the run trains the OR dataset with threshold 0.5 from small positive weights
ORRun ==
  /\ TrainCalled
  /\ input_features = sample_data
  /\ input_labels = expected_results
  /\ activation_threshold = 5000
  /\ initial_weights \in SmallWeightVectors

XORRun ==
  /\ TrainCalled
  /\ input_features = xor_features
  /\ input_labels = xor_labels

\* the batches, counted from 1, whose printed outputs equal the labels
ConvergedBatches == {n \in 1..BatchesExecuted : stdout[2 * n].output = input_labels}

\* the first of them, 0 when there is none
FirstConverged ==
  IF ConvergedBatches = {} THEN 0
  ELSE CHOOSE n \in ConvergedBatches : \A m \in ConvergedBatches : n <= m

\* the outputs of one batch under the weights w
BatchOutput(w) == [k \in 1..Len(input_features) |-> OutputOf(k, w)]

\* the first batch, counted from n, whose outputs equal the labels when the
\* run's dataset is trained from the weights w with learning rate lr; 0 when
\* there is none up to batch limit
RECURSIVE FirstConvergedFrom(_, _, _, _)
FirstConvergedFrom(w, lr, n, limit) ==
  IF n > limit THEN 0
  ELSE IF BatchOutput(w) = input_labels THEN n
  ELSE FirstConvergedFrom(ChainWith(w, BatchOutput(w), Len(input_features), lr),
                          lr, n + 1, limit)

\* the same for a whole run from the initial weights
FirstConvergedWith(lr) == FirstConvergedFrom(initial_weights, lr, 1, MaxBatches)

\* C6: training the OR dataset with threshold 0.5 and learning rate 1 from
\* small positive initial weights converges within 2 batches: once two
\* batches are printed, the outputs of batch 1 or of batch 2 equal the labels.
C6_ORConvergesInTwoBatches ==
  (ORRun /\ learning_rate = Scale /\ BatchesExecuted >= 2) =>
     (stdout[2].output = input_labels \/ stdout[4].output = input_labels)

\* an OR run with learning rate 1 whose first batch missed the labels and
\* whose second batch met them
C6_Witness ==
  /\ ORRun /\ learning_rate = Scale
  /\ BatchesExecuted >= 2
  /\ stdout[2].output = <<0, 0, 0, 0>>
  /\ stdout[4].output = input_labels

\* C7: training the XOR dataset never converges: for every learning rate,
\* initial weight vector and number of batches no batch prints an output
\* vector equal to the label vector, and the run raises no error and ends
\* after all its batches.
C7_XORNeverConverges ==
  XORRun =>
    /\ \A j \in PostLines : stdout[j].output # input_labels
    /\ pc # "error"
    /\ pc = "done" => BatchesExecuted = num_batches

\* the notebook's XOR run, done after five batches or more, none converged
C7_Witness ==
  /\ XORRun /\ pc = "done"
  /\ initial_weights = xor_initial_weights /\ learning_rate = 500
  /\ num_batches >= 5 /\ BatchesExecuted = num_batches
  /\ stdout[2].output = <<0, 1, 0, 1>>
  /\ ConvergedBatches = {}

\* C8 as claimed: OR training converges for every learning rate of the set,
\* the index of the first converged batch is non-increasing in the learning
\* rate, and with rate 0.05 it is strictly greater than with rate 1.
C8_MonotoneInRate ==
  (ORRun /\ pc = "done") =>
     /\ num_batches = MaxBatches => FirstConverged # 0
     /\ FirstConverged # 0 =>
          \A lr \in LearningRates :
            lr >= learning_rate =>
              (FirstConvergedWith(lr) # 0 /\ FirstConvergedWith(lr) <= FirstConverged)
     /\ (FirstConverged # 0 /\ learning_rate = 500) =>
          FirstConverged > FirstConvergedWith(Scale)

\* C8, amended: OR training with threshold 0.5 from the same small positive
\* weights converges for every learning rate of the set, and with rate 0.05
\* the first converged batch comes strictly later than with rate 1; the index
\* is not claimed to be non-increasing in the learning rate.
C8_ConvergesSlowerAtSmallRate ==
  (ORRun /\ pc = "done") =>
     /\ num_batches = MaxBatches => FirstConverged # 0
     /\ FirstConverged # 0 => FirstConvergedWith(learning_rate) = FirstConverged
     /\ (FirstConverged # 0 /\ learning_rate = 500) =>
          /\ FirstConvergedWith(Scale) # 0
          /\ FirstConverged > FirstConvergedWith(Scale)

\* an OR run with learning rate 0.05 that converged in its fifth batch, where
\* learning rate 1 converges in the second
C8_Witness ==
  /\ ORRun /\ pc = "done"
  /\ learning_rate = 500
  /\ FirstConverged = 5
  /\ FirstConvergedWith(Scale) = 2

\* ------------------------------------------------------------------------
\* What train gives its caller
\* ------------------------------------------------------------------------

\* C9 as claimed: train returns the final weight vector to its caller.
C9_ReturnsFinalWeights ==
  (TrainCalled /\ pc = "done") => result = [kind |-> "weights", weights |-> weights]

\* C9, amended: train returns nothing (None) to its caller; the final weight
\* vector, the weights as of the end of the last batch, is only printed, in
\* the last post-batch line (with num_batches = 0 nothing is printed and the
\* weights are still the initial weights).
C9_ReturnsNone ==
  (TrainCalled /\ pc = "done") =>
     /\ result = [kind |-> "None"]
     /\ num_batches = 0 => (stdout = <<>> /\ weights = initial_weights)
     /\ num_batches > 0 =>
          /\ stdout[Len(stdout)].line = "post"
          /\ stdout[Len(stdout)].weights = weights

\* a finished run whose batches changed the weights
C9_Witness ==
  /\ TrainCalled /\ pc = "done"
  /\ num_batches > 0
  /\ weights # initial_weights
  /\ result.kind = "None"

\* ------------------------------------------------------------------------
\* Examples of another length than the weights
\* ------------------------------------------------------------------------

\* train stands before the evaluate of an example whose length is not the
\* weights' length
AtMismatch ==
  /\ pc = "evaluate"
  /\ idx <= Len(input_features)
  /\ Len(input_features[idx]) # Len(weights)

\* C10: evaluate called with an example shorter or longer than the weight
\* vector ends in an error and returns neither 0 nor 1; inside train the
\* error ends the run at once: the step at the mismatched example goes to
\* the error, nothing is evaluated, adjusted or printed by it or after it,
\* and no step is retried.
C10_MismatchIsAnError ==
  /\ []((EvaluateCalled /\ Len(call.input) # Len(call.weights)) =>
          result = [kind |-> "ValueError"])
  /\ [](pc = "error" =>
          /\ result = [kind |-> "ValueError"]
          /\ Len(input_features[idx]) # Len(weights)
          /\ Len(output) = idx - 1
          /\ stdout[Len(stdout)].line = "pre"
          /\ weights = PreBatchWeights)
  /\ [][ /\ AtMismatch => (pc' = "error" /\ UNCHANGED <<weights, output, stdout, idx>>)
         /\ pc # "error" ]_vars

\* train stopped by an example shorter than the weights, after it had
\* evaluated the examples before it
C10_Witness ==
  /\ pc = "error"
  /\ idx > 1
  /\ Len(output) = idx - 1
  /\ Len(input_features[idx]) < Len(weights)

\* ------------------------------------------------------------------------
\* adjust_weights and the length of the weight vector
\* ------------------------------------------------------------------------

\* C11: adjust called with an example shorter or longer than the weight
\* vector ends in an error and returns no weight vector.
C11_AdjustMismatchIsAnError ==
  (AdjustCalled /\ Len(call.given_input) # Len(call.input_weights)) =>
     result.kind # "ok"

\* C12: in every state of a training run, before, between and after the
\* adjustments of every batch, the weight vector has the length of the
\* initial weights, which is the dimension d of the examples of a dataset of
\* consistent dimension; so have the weights of every line printed.
C12_WeightLengthIsDimension ==
  TrainCalled =>
    /\ Len(weights) = Len(initial_weights)
    /\ ConsistentDimension =>
         \A k \in 1..Len(input_features) : Len(weights) = Len(input_features[k])
    /\ \A j \in 1..Len(stdout) : Len(stdout[j].weights) = Len(initial_weights)

\* a later batch stands between two adjustments that changed the weights
C12_Witness ==
  /\ TrainCalled /\ ConsistentDimension
  /\ pc = "adjust" /\ idx = 3
  /\ batch_num >= 1
  /\ weights # PreBatchWeights
  /\ Len(weights) = 2

\* ------------------------------------------------------------------------
\* Convergence seen by the caller
\* ------------------------------------------------------------------------

\* the batches, from the second on, that ended with the weights the batch
\* before ended with
UnchangedBatches ==
  {n \in 2..BatchesExecuted : stdout[2 * n].weights = stdout[2 * n - 2].weights}

C14_ConvergenceIsStable ==
  TrainCalled =>
    \A n \in ConvergedBatches :
      /\ stdout[2 * n].weights = stdout[2 * n - 1].weights
      /\ weights = stdout[2 * n].weights
      /\ \A m \in (n + 1)..BatchesExecuted :
           /\ stdout[2 * m].output = stdout[2 * n].output
           /\ stdout[2 * m].weights = stdout[2 * n].weights

\* a run in the adjustments of the second batch after the one that converged
C14_Witness ==
  /\ TrainCalled
  /\ pc = "adjust" /\ idx = 4
  /\ \E n \in ConvergedBatches :
       /\ n > 1
       /\ (n - 1) \notin ConvergedBatches
       /\ BatchesExecuted = n + 1

\* ------------------------------------------------------------------------
\* The caller's vectors and the second run
\* ------------------------------------------------------------------------

\* the lines the first run printed, once a second run is under way
FirstRun == cells[1]

\* C15: adjust and train never modify a weight vector of the caller: after
\* adjust returned its input weights are as they were passed, during and
\* after train the caller's initial vector is as it was passed, and a second
\* run started from that vector begins with the pre-batch weights the first
\* run began with.
C15_CallerWeightsUntouched ==
  /\ AdjustCalled => caller_weights = call.input_weights
  /\ TrainCalled => caller_weights = initial_weights
  /\ (TrainCalled /\ cells # <<>> /\ Len(FirstRun) > 0) =>
       /\ initial_weights = FirstRun[1].weights
       /\ Len(stdout) > 0 => stdout[1].weights = FirstRun[1].weights

\* a second run has printed its first pre-batch weights after a first run
\* whose first batch changed the weights
C15_Witness ==
  /\ TrainCalled /\ cells # <<>>
  /\ Len(FirstRun) >= 2
  /\ FirstRun[2].weights # FirstRun[1].weights
  /\ Len(stdout) >= 1
  /\ stdout[1].weights = FirstRun[1].weights

\* ------------------------------------------------------------------------
\* The worked example of the notebook
\* ------------------------------------------------------------------------

\* perceptron(example_input, example_weights, threshold) was called
ExampleEvaluated ==
  /\ EvaluateCalled
  /\ call.input = example_input
  /\ call.weights = example_weights

\* adjust_weights(1, 0, example_input, example_weights) was called with
\* learning rate 1, given or left out
ExampleAdjusted ==
  /\ AdjustCalled
  /\ call.perceptron_output = 1 /\ call.expected_output = 0
  /\ call.given_input = example_input
  /\ call.input_weights = example_weights
  /\ RateOfCall = Scale

\* C16: for weights [.2,.12,.4,.6,.9], input [1,.2,.1,.05,.2], bias .2 and
\* threshold 0.5, evaluate returns 1.
C16_ExampleEvaluatesToOne ==
  (ExampleEvaluated /\ call.threshold = 5000) => result = [kind |-> "ok", value |-> 1]

\* the example call with threshold 0.5 has returned
C16_Witness ==
  /\ ExampleEvaluated
  /\ call.threshold = 5000
  /\ result.kind = "ok"
  /\ caller_weights = example_weights

\* C17: adjust with observed 1, expected 0, learning rate 1, the example
\* input and the example weights returns exactly [-0.8, -0.08, 0.3, 0.55, 0.7]
\* in exact decimal arithmetic.
C17_ExampleAdjustment ==
  ExampleAdjusted =>
    result = [kind |-> "ok", weights |-> <<-8000, -800, 3000, 5500, 7000>>]

\* the notebook's own call, with the learning rate left out, has returned
C17_Witness ==
  /\ ExampleAdjusted
  /\ ~call.rate_given
  /\ result.kind = "ok"
  /\ Len(result.weights) = 5

\* the outputs of two printed batches agree when their pre-batch weights do
SameWeightsSameOutput(A, B) ==
  \A i \in 1..Len(A), j \in 1..Len(B) :
    (A[i].line = "post" /\ B[j].line = "post"
       /\ A[i - 1].weights = B[j - 1].weights) => A[i].output = B[j].output

C19_ActivationIs701 ==
  ExampleEvaluated => (activation.set /\ activation.level = 7010 * Scale)

\* C19, amended: for weights [.2,.12,.4,.6,.9], input [1,.2,.1,.05,.2] and
\* bias .2 the activation sum that evaluate compares with the threshold is
\* .674 (dot product .474 plus bias .2).
C19_ActivationIs674 ==
  ExampleEvaluated => (activation.set /\ activation.level = 6740 * Scale)

\* the example call with the threshold .674 itself: the sum meets it
C19_Witness ==
  /\ ExampleEvaluated
  /\ call.threshold = 6740
  /\ activation.set
  /\ result.value = 1

\* ------------------------------------------------------------------------
\* The hand-written batch and train_perceptron
\* ------------------------------------------------------------------------

\* the post-batch weights of one batch of train_perceptron on the OR data
\* with threshold 0.5 and learning rate 1, after the adjustments for the
\* examples 1..k, from the weights w
RECURSIVE OneBatchOfTrain(_, _)
OneBatchOfTrain(w, k) ==
  IF k = 0 THEN w
  ELSE adjust_weights(hand_output(w)[k], expected_results[k], sample_data[k],
                      OneBatchOfTrain(w, k - 1), DefaultLearningRate).weights

\* C20: the new_weights of the hand-written batch equal the post-batch
\* weights of train_perceptron run for one batch from the same weights.
C20_HandBatchIsOneTrainBatch ==
  (pc = "returned" /\ call.fn = "hand_batch") =>
     result.weights = OneBatchOfTrain(call.weights, Len(sample_data))

\* ------------------------------------------------------------------------
\* The direction and the effect of one adjustment
\* ------------------------------------------------------------------------

\* C21: as the comment in adjust_weights states, for a positive feature value
\* and a positive learning rate the returned weight is smaller than the input
\* weight when the expected output is greater than the observed output, and
\* bigger when the expected output is lesser than the observed output.
C21_CommentDirection ==
  (AdjustCalled /\ Len(call.given_input) = Len(call.input_weights) /\ RateOfCall > 0) =>
     \A i \in 1..Len(call.given_input) :
       call.given_input[i] > 0 =>
         /\ call.expected_output > call.perceptron_output =>
              result.weights[i] < call.input_weights[i]
         /\ call.expected_output < call.perceptron_output =>
              result.weights[i] > call.input_weights[i]

\* the cell that evaluates, adjusts and evaluates again has run
LearnCalled == pc = "returned" /\ call.fn = "learn_cell"

\* the activation of the example x under the weights new differs from the
\* one under the weights old by (expected - observed) * rate * sum of x[i]^2
\* (the sum of squares divided by Scale exactly, to stay within TLC's
\* integers): it is no smaller when 1 is expected and no bigger when 0 is expected
MovesTowards(x, old, new, observed, expected, rate) ==
  /\ Dot(x, x) % Scale = 0
  /\ activation_level(x, new) - activation_level(x, old)
       = (expected - observed) * rate * (Dot(x, x) \div Scale)
  /\ expected = 1 => activation_level(x, new) >= activation_level(x, old)
  /\ expected = 0 => activation_level(x, new) <= activation_level(x, old)

\* C22: one adjust on a misclassified example never moves that example away
\* from its expected label: for a positive learning rate and observed #
\* expected the activation of the same example under the returned weights
\* differs from the old one by (expected - observed) * learningRate * (sum of
\* example[i]^2), so it is >= the old one when 1 is expected and <= when 0
\* is; for the example input and weights, threshold 0.5 and expected 0, the
\* output is 1 before the adjust and 0 after it.
C22_AdjustMovesTowardsLabel ==
  /\ (AdjustCalled /\ Len(call.given_input) = Len(call.input_weights)
        /\ call.perceptron_output # call.expected_output /\ RateOfCall > 0) =>
       MovesTowards(call.given_input, call.input_weights, result.weights,
                    call.perceptron_output, call.expected_output, RateOfCall)
  /\ (LearnCalled /\ result.kind = "ok" /\ result.output # call.expected_output) =>
       /\ MovesTowards(call.input, call.weights, result.new_weights,
                       result.output, call.expected_output, DefaultLearningRate)
       /\ result.output_again \in {result.output, call.expected_output}
  /\ (LearnCalled /\ call.input = example_input /\ call.weights = example_weights
        /\ call.threshold = activation_threshold_05 /\ call.expected_output = 0) =>
       /\ result.kind = "ok"
       /\ result.output = 1
       /\ result.output_again = 0

\* the notebook's cell has run on the example: 1 before learning, 0 after
C22_Witness ==
  /\ LearnCalled
  /\ call.input = example_input /\ call.weights = example_weights
  /\ call.threshold = activation_threshold_05 /\ call.expected_output = 0
  /\ result.output = 1 /\ result.output_again = 0
  /\ result.new_weights = <<-8000, -800, 3000, 5500, 7000>>

\* ------------------------------------------------------------------------
\* The batch as a sum
\* ------------------------------------------------------------------------

\* the sum over the examples 1..k of (label - output) * example[i]
RECURSIVE SumOfErrors(_, _, _)
SumOfErrors(outs, i, k) ==
  IF k = 0 THEN 0
  ELSE SumOfErrors(outs, i, k - 1)
         + (input_labels[k] - outs[k]) * input_features[k][i]

\* the orders in which n examples can be passed
Orders(n) == {p \in [1..n -> 1..n] : \A i, j \in 1..n : i # j => p[i] # p[j]}

\* the sequence seq in the order p
Permuted(seq, p) == [k \in 1..Len(seq) |-> seq[p[k]]]

\* a batch has just been printed
BatchPrinted == TrainCalled /\ pc = "batch" /\ BatchesExecuted > 0

\* C23: because every adjust of a batch uses outputs computed before the
\* batch, the post-batch weights of every batch equal the pre-batch weights
\* plus learningRate times the sum over all examples of
\* (label - output) * example; hence train's batch on the examples permuted
\* together with their labels, in any order, gives the same post-batch
\* weights (in exact arithmetic).
C23_BatchIsASum ==
  /\ TrainCalled =>
       \A n \in 1..BatchesExecuted :
         \A i \in 1..Len(stdout[2 * n].weights) :
           LET delta == learning_rate * SumOfErrors(stdout[2 * n].output, i,
                                                     Len(input_features))
           IN  /\ delta % Scale = 0
               /\ stdout[2 * n].weights[i]
                    = stdout[2 * n - 1].weights[i] + delta \div Scale
  /\ BatchPrinted =>
       \A p \in Orders(Len(input_features)) :
         train_batch(Permuted(input_features, p), Permuted(input_labels, p),
                     stdout[Len(stdout) - 1].weights, activation_threshold,
                     learning_rate)
           = stdout[Len(stdout)].weights

\* a batch was printed in which two examples with different features were
\* misclassified and the weights moved
C23_Witness ==
  /\ BatchPrinted
  /\ stdout[Len(stdout)].weights # stdout[Len(stdout) - 1].weights
  /\ \E j, k \in 1..Len(input_features) :
       /\ input_features[j] # input_features[k]
       /\ stdout[Len(stdout)].output[j] # input_labels[j]
       /\ stdout[Len(stdout)].output[k] # input_labels[k]
       /\ input_labels[j] # input_labels[k]

\* ------------------------------------------------------------------------
\* The bias and the threshold during training
\* ------------------------------------------------------------------------

\* every output of the printed batches of the lines is 1 exactly when the
\* inner product with the batch's pre-batch weights plus b reaches the
\* threshold
OutputsAddBias(lines, b) ==
  \A j \in 1..Len(lines) :
    lines[j].line = "post" =>
      \A k \in 1..Len(input_features) :
        lines[j].output[k] = 1 <=>
          Dot(input_features[k], lines[j - 1].weights) + b * Scale
            >= activation_threshold * Scale

\* C24: the bias is not learned: every evaluate of every batch of every
\* training run adds the same constant bias 0.2, which no adjust and no batch
\* of train ever changes, and neither the randomly initialised module-level
\* bias_weight nor any caller-supplied value affects any output; the
\* threshold likewise stays at its configured value for the whole run.
C24_BiasIsNotLearned ==
  /\ [](TrainCalled =>
          /\ OutputsAddBias(stdout, 2000)
          /\ cells # <<>> => OutputsAddBias(FirstRun, 2000)
          /\ module_bias_weight \in ModuleBiasWeights
          /\ activation_threshold \in ActivationThresholds)
  /\ [][pc # "idle" =>
          UNCHANGED <<activation_threshold, module_bias_weight>>]_vars

\* in the second batch or a later one an example was output as 1 whose inner
\* product alone is below the threshold: the bias 0.2 decided, after the
\* adjustments of a batch that changed the weights
C24_Witness ==
  /\ TrainCalled
  /\ \E n \in 2..BatchesExecuted, k \in 1..Len(input_features) :
       /\ stdout[2 * n].output[k] = 1
       /\ Dot(input_features[k], stdout[2 * n - 1].weights)
            < activation_threshold * Scale
       /\ stdout[2 * n - 1].weights # stdout[1].weights

====
